---- MODULE Spec2Model ----
EXTENDS Integers, Sequences, FiniteSets, TLC

(***************************************************************************)
(* Bounded-concurrency probing core of sentinelscope: scan_ports          *)
(* (scanning/ports.py), gather_with_concurrency (utils/net.py) and        *)
(* enumerate_subdomains (scanning/subdomains.py).  Each call is one       *)
(* asyncio task fan-out gated by an asyncio.Semaphore; every unit of work *)
(* is a task with position upc[u] \in {"queued","inflight","done"}       *)
(* ("closing" for a connected scan_ports task awaiting wait_closed).      *)
(* Host names are sequences of code points (46 = ".", 97 = "a", ...).     *)
(***************************************************************************)

\* ---- bounds ----
MaxPortsLen == 3
MaxLimit == 2
NUnits == 3

\* candidate port numbers the input port collections are drawn from
PortPool == {22, 80, 443}

\* ---- generic helpers ----
Range(f) == {f[i] : i \in DOMAIN f}

\* the value of F applied to the value of e, with e evaluated once
Bind(e, F(_)) == CHOOSE v \in {F(x) : x \in {e}} : TRUE

\* insertion of x into the ascending sequence s (Python sorted, stable)
RECURSIVE InsertInt(_, _)
InsertInt(x, s) ==
  IF s = <<>> THEN <<x>>
  ELSE IF x < Head(s) THEN <<x>> \o s
  ELSE <<Head(s)>> \o InsertInt(x, Tail(s))

RECURSIVE SortInts(_)
SortInts(s) == IF s = <<>> THEN <<>> ELSE InsertInt(Head(s), SortInts(Tail(s)))

\* a list enumerating the elements of a finite set (iteration order of a Python set)
RECURSIVE SeqOfSet(_)
SeqOfSet(S) == IF S = {} THEN <<>> ELSE LET x == CHOOSE y \in S : TRUE IN <<x>> \o SeqOfSet(S \ {x})

\* ---- scan_ports ----
PortsListNoDedup(pin) == SortInts(pin)

\* ports_list: List[int] = sorted(set(int(p) for p in ports))
PortsList(pin) == SortInts(SeqOfSet(Range(pin)))

\* reachability of a port on a stable network: "open" accepts the connection, "refused"
\* answers the SYN with a reset, "silent" never completes the handshake (SYN dropped,
\* accept backlog full), so the connect would wait until the kernel gives up
Reach == {"open", "refused", "silent"}

\* final outcome of one _try_connect:
\* "ok" connected and closed, "closeerr" connected, then wait_closed raised an OSError
\* (ConnectionResetError when the peer's reset was read before writer.close()),
\* "timeout" asyncio.TimeoutError raised by wait_for, "refused" ConnectionRefusedError,
\* "oserror" other OSError, "ostimeout" OSError ETIMEDOUT of the kernel's connect,
\* "idna" UnicodeError raised while encoding the host name
ConnOutcomes == {"ok", "closeerr", "timeout", "refused", "oserror", "ostimeout", "idna"}

\* the TCP connect itself succeeded
Connected(o) == o \in {"ok", "closeerr"}

\* open_connection(host, port) left to itself: a silent port fails only when the kernel
\* abandons the SYN retries (OSError ETIMEDOUT, minutes later)
ConnectOutcomesUnbounded(hostOk, r) ==
  IF ~hostOk THEN {"idna"}
  ELSE CASE r = "open"    -> {"connected", "oserror"}
         [] r = "refused" -> {"refused", "oserror"}
         [] OTHER         -> {"ostimeout"}

\* asyncio.wait_for(asyncio.open_connection(host, port), timeout): wait_for cancels a
\* connect still pending after timeout seconds and raises asyncio.TimeoutError; a peer that
\* accepts and resets at once can make open_connection itself raise ConnectionResetError
ConnectOutcomes(hostOk, r) ==
  IF ~hostOk THEN {"idna"}
  ELSE CASE r = "open"    -> {"connected", "oserror"}
         [] r = "refused" -> {"refused", "oserror"}
         [] OTHER         -> {"timeout"}

\* writer.close(); await writer.wait_closed(), outside wait_for: nothing was written, so
\* close() finds the write buffer empty and schedules connection_lost with call_soon; the
\* close waiter resolves on a following loop iteration without waiting for the peer, with
\* the ConnectionResetError the transport recorded if the peer's reset was read first
CloseOutcomes == {"ok", "closeerr"}

ExcClass(o) ==
  CASE o = "closeerr" -> "OSError"
    [] o = "timeout" -> "TimeoutError"
    [] o = "refused" -> "OSError"
    [] o = "oserror" -> "OSError"
    [] o = "ostimeout" -> "OSError"
    [] o = "idna"    -> "UnicodeError"
    [] OTHER         -> "none"

\* except (asyncio.TimeoutError, OSError)
Caught == {"TimeoutError", "OSError"}

\* _try_connect: returns True / False, or the exception escapes (exc)
TryConnect(o) ==
  IF o = "ok" THEN [exc |-> FALSE, ret |-> TRUE]
  ELSE IF ExcClass(o) \in Caught THEN [exc |-> FALSE, ret |-> FALSE]
  ELSE [exc |-> TRUE, ret |-> FALSE]

OpenPortsByCompletion(results, order) ==
  LET openSet == {results[i].port : i \in {j \in DOMAIN results : results[j].is_open}}
  IN SelectSeq(order, LAMBDA p : p \in openSet)

\* open_ports = [r.port for r in results if r.is_open]
OpenPorts(results, order) == [i \in 1..Len(SelectSeq(results, LAMBDA r : r.is_open)) |->
                                 SelectSeq(results, LAMBDA r : r.is_open)[i].port]

\* ---- enumerate_subdomains ----
\* code points: " " 32, "." 46, "A" 65, "W" 87, "a" 97, "b" 98, "w" 119
Dot == <<46>>

\* root domains passed to enumerate_subdomains: "a.b" and "A.b"
Roots == {<<97, 46, 98>>, <<65, 46, 98>>}

\* WORDLIST labels (a bounded part of the list): "w", "b"
WordList == <<<<119>>, <<98>>>>

\* raw names a CT-log response may carry (after splitting name_value on "\n"):
\* "a.b", "w.a.b", " W.a.b", "ba.b", "b.a.b", "w.b.b"
CTPool == { <<97, 46, 98>>, <<119, 46, 97, 46, 98>>, <<32, 87, 46, 97, 46, 98>>,
            <<98, 97, 46, 98>>, <<98, 46, 97, 46, 98>>, <<119, 46, 98, 46, 98>> }

\* ---- str.lower() (CPython 3.11 unicodeobject.c lower_ucs4, Unicode 14.0 tables) ----
\* the one-to-one lower-case mappings, as runs <<lo, hi, step, delta>>: every code point
\* lo, lo + step, ..., hi maps to itself + delta (U+0130 and U+03A3 are handled apart)
LowerRuns ==
<<<<65, 90, 1, 32>>, <<192, 214, 1, 32>>, <<216, 222, 1, 32>>, <<256, 302, 2, 1>>, <<306, 310, 2,
  1>>, <<313, 327, 2, 1>>, <<330, 374, 2, 1>>, <<376, 376, 1, -121>>, <<377, 381, 2, 1>>, <<385,
  385, 1, 210>>, <<386, 388, 2, 1>>, <<390, 390, 1, 206>>, <<391, 391, 1, 1>>, <<393, 394, 1, 205>>,
  <<395, 395, 1, 1>>, <<398, 398, 1, 79>>, <<399, 399, 1, 202>>, <<400, 400, 1, 203>>, <<401, 401,
  1, 1>>, <<403, 403, 1, 205>>, <<404, 404, 1, 207>>, <<406, 406, 1, 211>>, <<407, 407, 1, 209>>,
  <<408, 408, 1, 1>>, <<412, 412, 1, 211>>, <<413, 413, 1, 213>>, <<415, 415, 1, 214>>, <<416, 420,
  2, 1>>, <<422, 422, 1, 218>>, <<423, 423, 1, 1>>, <<425, 425, 1, 218>>, <<428, 428, 1, 1>>, <<430,
  430, 1, 218>>, <<431, 431, 1, 1>>, <<433, 434, 1, 217>>, <<435, 437, 2, 1>>, <<439, 439, 1, 219>>,
  <<440, 440, 1, 1>>, <<444, 444, 1, 1>>, <<452, 452, 1, 2>>, <<453, 453, 1, 1>>, <<455, 455, 1,
  2>>, <<456, 456, 1, 1>>, <<458, 458, 1, 2>>, <<459, 475, 2, 1>>, <<478, 494, 2, 1>>, <<497, 497,
  1, 2>>, <<498, 500, 2, 1>>, <<502, 502, 1, -97>>, <<503, 503, 1, -56>>, <<504, 542, 2, 1>>, <<544,
  544, 1, -130>>, <<546, 562, 2, 1>>, <<570, 570, 1, 10795>>, <<571, 571, 1, 1>>, <<573, 573, 1,
  -163>>, <<574, 574, 1, 10792>>, <<577, 577, 1, 1>>, <<579, 579, 1, -195>>, <<580, 580, 1, 69>>,
  <<581, 581, 1, 71>>, <<582, 590, 2, 1>>, <<880, 882, 2, 1>>, <<886, 886, 1, 1>>, <<895, 895, 1,
  116>>, <<902, 902, 1, 38>>, <<904, 906, 1, 37>>, <<908, 908, 1, 64>>, <<910, 911, 1, 63>>, <<913,
  929, 1, 32>>, <<932, 939, 1, 32>>, <<975, 975, 1, 8>>, <<984, 1006, 2, 1>>, <<1012, 1012, 1,
  -60>>, <<1015, 1015, 1, 1>>, <<1017, 1017, 1, -7>>, <<1018, 1018, 1, 1>>, <<1021, 1023, 1, -130>>,
  <<1024, 1039, 1, 80>>, <<1040, 1071, 1, 32>>, <<1120, 1152, 2, 1>>, <<1162, 1214, 2, 1>>, <<1216,
  1216, 1, 15>>, <<1217, 1229, 2, 1>>, <<1232, 1326, 2, 1>>, <<1329, 1366, 1, 48>>, <<4256, 4293, 1,
  7264>>, <<4295, 4295, 1, 7264>>, <<4301, 4301, 1, 7264>>, <<5024, 5103, 1, 38864>>, <<5104, 5109,
  1, 8>>, <<7312, 7354, 1, -3008>>, <<7357, 7359, 1, -3008>>, <<7680, 7828, 2, 1>>, <<7838, 7838, 1,
  -7615>>, <<7840, 7934, 2, 1>>, <<7944, 7951, 1, -8>>, <<7960, 7965, 1, -8>>, <<7976, 7983, 1,
  -8>>, <<7992, 7999, 1, -8>>, <<8008, 8013, 1, -8>>, <<8025, 8031, 2, -8>>, <<8040, 8047, 1, -8>>,
  <<8072, 8079, 1, -8>>, <<8088, 8095, 1, -8>>, <<8104, 8111, 1, -8>>, <<8120, 8121, 1, -8>>,
  <<8122, 8123, 1, -74>>, <<8124, 8124, 1, -9>>, <<8136, 8139, 1, -86>>, <<8140, 8140, 1, -9>>,
  <<8152, 8153, 1, -8>>, <<8154, 8155, 1, -100>>, <<8168, 8169, 1, -8>>, <<8170, 8171, 1, -112>>,
  <<8172, 8172, 1, -7>>, <<8184, 8185, 1, -128>>, <<8186, 8187, 1, -126>>, <<8188, 8188, 1, -9>>,
  <<8486, 8486, 1, -7517>>, <<8490, 8490, 1, -8383>>, <<8491, 8491, 1, -8262>>, <<8498, 8498, 1,
  28>>, <<8544, 8559, 1, 16>>, <<8579, 8579, 1, 1>>, <<9398, 9423, 1, 26>>, <<11264, 11311, 1, 48>>,
  <<11360, 11360, 1, 1>>, <<11362, 11362, 1, -10743>>, <<11363, 11363, 1, -3814>>, <<11364, 11364,
  1, -10727>>, <<11367, 11371, 2, 1>>, <<11373, 11373, 1, -10780>>, <<11374, 11374, 1, -10749>>,
  <<11375, 11375, 1, -10783>>, <<11376, 11376, 1, -10782>>, <<11378, 11378, 1, 1>>, <<11381, 11381,
  1, 1>>, <<11390, 11391, 1, -10815>>, <<11392, 11490, 2, 1>>, <<11499, 11501, 2, 1>>, <<11506,
  11506, 1, 1>>, <<42560, 42604, 2, 1>>, <<42624, 42650, 2, 1>>, <<42786, 42798, 2, 1>>, <<42802,
  42862, 2, 1>>, <<42873, 42875, 2, 1>>, <<42877, 42877, 1, -35332>>, <<42878, 42886, 2, 1>>,
  <<42891, 42891, 1, 1>>, <<42893, 42893, 1, -42280>>, <<42896, 42898, 2, 1>>, <<42902, 42920, 2,
  1>>, <<42922, 42922, 1, -42308>>, <<42923, 42923, 1, -42319>>, <<42924, 42924, 1, -42315>>,
  <<42925, 42925, 1, -42305>>, <<42926, 42926, 1, -42308>>, <<42928, 42928, 1, -42258>>, <<42929,
  42929, 1, -42282>>, <<42930, 42930, 1, -42261>>, <<42931, 42931, 1, 928>>, <<42932, 42946, 2, 1>>,
  <<42948, 42948, 1, -48>>, <<42949, 42949, 1, -42307>>, <<42950, 42950, 1, -35384>>, <<42951,
  42953, 2, 1>>, <<42960, 42960, 1, 1>>, <<42966, 42968, 2, 1>>, <<42997, 42997, 1, 1>>, <<65313,
  65338, 1, 32>>, <<66560, 66599, 1, 40>>, <<66736, 66771, 1, 40>>, <<66928, 66938, 1, 39>>,
  <<66940, 66954, 1, 39>>, <<66956, 66962, 1, 39>>, <<66964, 66965, 1, 39>>, <<68736, 68786, 1,
  64>>, <<71840, 71871, 1, 32>>, <<93760, 93791, 1, 32>>, <<125184, 125217, 1, 34>>>>

CaseIgnorable ==
<<<<39, 39>>, <<46, 46>>, <<58, 58>>, <<94, 94>>, <<96, 96>>, <<168, 168>>, <<173, 173>>, <<175,
  175>>, <<180, 180>>, <<183, 184>>, <<688, 879>>, <<884, 885>>, <<890, 890>>, <<900, 901>>, <<903,
  903>>, <<1155, 1161>>, <<1369, 1369>>, <<1375, 1375>>, <<1425, 1469>>, <<1471, 1471>>, <<1473,
  1474>>, <<1476, 1477>>, <<1479, 1479>>, <<1524, 1524>>, <<1536, 1541>>, <<1552, 1562>>, <<1564,
  1564>>, <<1600, 1600>>, <<1611, 1631>>, <<1648, 1648>>, <<1750, 1757>>, <<1759, 1768>>, <<1770,
  1773>>, <<1807, 1807>>, <<1809, 1809>>, <<1840, 1866>>, <<1958, 1968>>, <<2027, 2037>>, <<2042,
  2042>>, <<2045, 2045>>, <<2070, 2093>>, <<2137, 2139>>, <<2184, 2184>>, <<2192, 2193>>, <<2200,
  2207>>, <<2249, 2306>>, <<2362, 2362>>, <<2364, 2364>>, <<2369, 2376>>, <<2381, 2381>>, <<2385,
  2391>>, <<2402, 2403>>, <<2417, 2417>>, <<2433, 2433>>, <<2492, 2492>>, <<2497, 2500>>, <<2509,
  2509>>, <<2530, 2531>>, <<2558, 2558>>, <<2561, 2562>>, <<2620, 2620>>, <<2625, 2626>>, <<2631,
  2632>>, <<2635, 2637>>, <<2641, 2641>>, <<2672, 2673>>, <<2677, 2677>>, <<2689, 2690>>, <<2748,
  2748>>, <<2753, 2757>>, <<2759, 2760>>, <<2765, 2765>>, <<2786, 2787>>, <<2810, 2815>>, <<2817,
  2817>>, <<2876, 2876>>, <<2879, 2879>>, <<2881, 2884>>, <<2893, 2893>>, <<2901, 2902>>, <<2914,
  2915>>, <<2946, 2946>>, <<3008, 3008>>, <<3021, 3021>>, <<3072, 3072>>, <<3076, 3076>>, <<3132,
  3132>>, <<3134, 3136>>, <<3142, 3144>>, <<3146, 3149>>, <<3157, 3158>>, <<3170, 3171>>, <<3201,
  3201>>, <<3260, 3260>>, <<3263, 3263>>, <<3270, 3270>>, <<3276, 3277>>, <<3298, 3299>>, <<3328,
  3329>>, <<3387, 3388>>, <<3393, 3396>>, <<3405, 3405>>, <<3426, 3427>>, <<3457, 3457>>, <<3530,
  3530>>, <<3538, 3540>>, <<3542, 3542>>, <<3633, 3633>>, <<3636, 3642>>, <<3654, 3662>>, <<3761,
  3761>>, <<3764, 3772>>, <<3782, 3782>>, <<3784, 3789>>, <<3864, 3865>>, <<3893, 3893>>, <<3895,
  3895>>, <<3897, 3897>>, <<3953, 3966>>, <<3968, 3972>>, <<3974, 3975>>, <<3981, 3991>>, <<3993,
  4028>>, <<4038, 4038>>, <<4141, 4144>>, <<4146, 4151>>, <<4153, 4154>>, <<4157, 4158>>, <<4184,
  4185>>, <<4190, 4192>>, <<4209, 4212>>, <<4226, 4226>>, <<4229, 4230>>, <<4237, 4237>>, <<4253,
  4253>>, <<4348, 4348>>, <<4957, 4959>>, <<5906, 5908>>, <<5938, 5939>>, <<5970, 5971>>, <<6002,
  6003>>, <<6068, 6069>>, <<6071, 6077>>, <<6086, 6086>>, <<6089, 6099>>, <<6103, 6103>>, <<6109,
  6109>>, <<6155, 6159>>, <<6211, 6211>>, <<6277, 6278>>, <<6313, 6313>>, <<6432, 6434>>, <<6439,
  6440>>, <<6450, 6450>>, <<6457, 6459>>, <<6679, 6680>>, <<6683, 6683>>, <<6742, 6742>>, <<6744,
  6750>>, <<6752, 6752>>, <<6754, 6754>>, <<6757, 6764>>, <<6771, 6780>>, <<6783, 6783>>, <<6823,
  6823>>, <<6832, 6862>>, <<6912, 6915>>, <<6964, 6964>>, <<6966, 6970>>, <<6972, 6972>>, <<6978,
  6978>>, <<7019, 7027>>, <<7040, 7041>>, <<7074, 7077>>, <<7080, 7081>>, <<7083, 7085>>, <<7142,
  7142>>, <<7144, 7145>>, <<7149, 7149>>, <<7151, 7153>>, <<7212, 7219>>, <<7222, 7223>>, <<7288,
  7293>>, <<7376, 7378>>, <<7380, 7392>>, <<7394, 7400>>, <<7405, 7405>>, <<7412, 7412>>, <<7416,
  7417>>, <<7468, 7530>>, <<7544, 7544>>, <<7579, 7679>>, <<8125, 8125>>, <<8127, 8129>>, <<8141,
  8143>>, <<8157, 8159>>, <<8173, 8175>>, <<8189, 8190>>, <<8203, 8207>>, <<8216, 8217>>, <<8228,
  8228>>, <<8231, 8231>>, <<8234, 8238>>, <<8288, 8292>>, <<8294, 8303>>, <<8305, 8305>>, <<8319,
  8319>>, <<8336, 8348>>, <<8400, 8432>>, <<11388, 11389>>, <<11503, 11505>>, <<11631, 11631>>,
  <<11647, 11647>>, <<11744, 11775>>, <<11823, 11823>>, <<12293, 12293>>, <<12330, 12333>>, <<12337,
  12341>>, <<12347, 12347>>, <<12441, 12446>>, <<12540, 12542>>, <<40981, 40981>>, <<42232, 42237>>,
  <<42508, 42508>>, <<42607, 42610>>, <<42612, 42621>>, <<42623, 42623>>, <<42652, 42655>>, <<42736,
  42737>>, <<42752, 42785>>, <<42864, 42864>>, <<42888, 42890>>, <<42994, 42996>>, <<43000, 43001>>,
  <<43010, 43010>>, <<43014, 43014>>, <<43019, 43019>>, <<43045, 43046>>, <<43052, 43052>>, <<43204,
  43205>>, <<43232, 43249>>, <<43263, 43263>>, <<43302, 43309>>, <<43335, 43345>>, <<43392, 43394>>,
  <<43443, 43443>>, <<43446, 43449>>, <<43452, 43453>>, <<43471, 43471>>, <<43493, 43494>>, <<43561,
  43566>>, <<43569, 43570>>, <<43573, 43574>>, <<43587, 43587>>, <<43596, 43596>>, <<43632, 43632>>,
  <<43644, 43644>>, <<43696, 43696>>, <<43698, 43700>>, <<43703, 43704>>, <<43710, 43711>>, <<43713,
  43713>>, <<43741, 43741>>, <<43756, 43757>>, <<43763, 43764>>, <<43766, 43766>>, <<43867, 43871>>,
  <<43881, 43883>>, <<44005, 44005>>, <<44008, 44008>>, <<44013, 44013>>, <<64286, 64286>>, <<64434,
  64450>>, <<65024, 65039>>, <<65043, 65043>>, <<65056, 65071>>, <<65106, 65106>>, <<65109, 65109>>,
  <<65279, 65279>>, <<65287, 65287>>, <<65294, 65294>>, <<65306, 65306>>, <<65342, 65342>>, <<65344,
  65344>>, <<65392, 65392>>, <<65438, 65439>>, <<65507, 65507>>, <<65529, 65531>>, <<66045, 66045>>,
  <<66272, 66272>>, <<66422, 66426>>, <<67456, 67461>>, <<67463, 67504>>, <<67506, 67514>>, <<68097,
  68099>>, <<68101, 68102>>, <<68108, 68111>>, <<68152, 68154>>, <<68159, 68159>>, <<68325, 68326>>,
  <<68900, 68903>>, <<69291, 69292>>, <<69446, 69456>>, <<69506, 69509>>, <<69633, 69633>>, <<69688,
  69702>>, <<69744, 69744>>, <<69747, 69748>>, <<69759, 69761>>, <<69811, 69814>>, <<69817, 69818>>,
  <<69821, 69821>>, <<69826, 69826>>, <<69837, 69837>>, <<69888, 69890>>, <<69927, 69931>>, <<69933,
  69940>>, <<70003, 70003>>, <<70016, 70017>>, <<70070, 70078>>, <<70089, 70092>>, <<70095, 70095>>,
  <<70191, 70193>>, <<70196, 70196>>, <<70198, 70199>>, <<70206, 70206>>, <<70367, 70367>>, <<70371,
  70378>>, <<70400, 70401>>, <<70459, 70460>>, <<70464, 70464>>, <<70502, 70508>>, <<70512, 70516>>,
  <<70712, 70719>>, <<70722, 70724>>, <<70726, 70726>>, <<70750, 70750>>, <<70835, 70840>>, <<70842,
  70842>>, <<70847, 70848>>, <<70850, 70851>>, <<71090, 71093>>, <<71100, 71101>>, <<71103, 71104>>,
  <<71132, 71133>>, <<71219, 71226>>, <<71229, 71229>>, <<71231, 71232>>, <<71339, 71339>>, <<71341,
  71341>>, <<71344, 71349>>, <<71351, 71351>>, <<71453, 71455>>, <<71458, 71461>>, <<71463, 71467>>,
  <<71727, 71735>>, <<71737, 71738>>, <<71995, 71996>>, <<71998, 71998>>, <<72003, 72003>>, <<72148,
  72151>>, <<72154, 72155>>, <<72160, 72160>>, <<72193, 72202>>, <<72243, 72248>>, <<72251, 72254>>,
  <<72263, 72263>>, <<72273, 72278>>, <<72281, 72283>>, <<72330, 72342>>, <<72344, 72345>>, <<72752,
  72758>>, <<72760, 72765>>, <<72767, 72767>>, <<72850, 72871>>, <<72874, 72880>>, <<72882, 72883>>,
  <<72885, 72886>>, <<73009, 73014>>, <<73018, 73018>>, <<73020, 73021>>, <<73023, 73029>>, <<73031,
  73031>>, <<73104, 73105>>, <<73109, 73109>>, <<73111, 73111>>, <<73459, 73460>>, <<78896, 78904>>,
  <<92912, 92916>>, <<92976, 92982>>, <<92992, 92995>>, <<94031, 94031>>, <<94095, 94111>>, <<94176,
  94177>>, <<94179, 94180>>, <<110576, 110579>>, <<110581, 110587>>, <<110589, 110590>>, <<113821,
  113822>>, <<113824, 113827>>, <<118528, 118573>>, <<118576, 118598>>, <<119143, 119145>>,
  <<119155, 119170>>, <<119173, 119179>>, <<119210, 119213>>, <<119362, 119364>>, <<121344,
  121398>>, <<121403, 121452>>, <<121461, 121461>>, <<121476, 121476>>, <<121499, 121503>>,
  <<121505, 121519>>, <<122880, 122886>>, <<122888, 122904>>, <<122907, 122913>>, <<122915,
  122916>>, <<122918, 122922>>, <<123184, 123197>>, <<123566, 123566>>, <<123628, 123631>>,
  <<125136, 125142>>, <<125252, 125259>>, <<127995, 127999>>, <<917505, 917505>>, <<917536,
  917631>>, <<917760, 917999>>>>

CasedNotIgnorable ==
<<<<65, 90>>, <<97, 122>>, <<170, 170>>, <<181, 181>>, <<186, 186>>, <<192, 214>>, <<216, 246>>,
  <<248, 442>>, <<444, 447>>, <<452, 659>>, <<661, 687>>, <<880, 883>>, <<886, 887>>, <<891, 893>>,
  <<895, 895>>, <<902, 902>>, <<904, 906>>, <<908, 908>>, <<910, 929>>, <<932, 1013>>, <<1015,
  1153>>, <<1162, 1327>>, <<1329, 1366>>, <<1376, 1416>>, <<4256, 4293>>, <<4295, 4295>>, <<4301,
  4301>>, <<4304, 4346>>, <<4349, 4351>>, <<5024, 5109>>, <<5112, 5117>>, <<7296, 7304>>, <<7312,
  7354>>, <<7357, 7359>>, <<7424, 7467>>, <<7531, 7543>>, <<7545, 7578>>, <<7680, 7957>>, <<7960,
  7965>>, <<7968, 8005>>, <<8008, 8013>>, <<8016, 8023>>, <<8025, 8025>>, <<8027, 8027>>, <<8029,
  8029>>, <<8031, 8061>>, <<8064, 8116>>, <<8118, 8124>>, <<8126, 8126>>, <<8130, 8132>>, <<8134,
  8140>>, <<8144, 8147>>, <<8150, 8155>>, <<8160, 8172>>, <<8178, 8180>>, <<8182, 8188>>, <<8450,
  8450>>, <<8455, 8455>>, <<8458, 8467>>, <<8469, 8469>>, <<8473, 8477>>, <<8484, 8484>>, <<8486,
  8486>>, <<8488, 8488>>, <<8490, 8493>>, <<8495, 8500>>, <<8505, 8505>>, <<8508, 8511>>, <<8517,
  8521>>, <<8526, 8526>>, <<8544, 8575>>, <<8579, 8580>>, <<9398, 9449>>, <<11264, 11387>>, <<11390,
  11492>>, <<11499, 11502>>, <<11506, 11507>>, <<11520, 11557>>, <<11559, 11559>>, <<11565, 11565>>,
  <<42560, 42605>>, <<42624, 42651>>, <<42786, 42863>>, <<42865, 42887>>, <<42891, 42894>>, <<42896,
  42954>>, <<42960, 42961>>, <<42963, 42963>>, <<42965, 42969>>, <<42997, 42998>>, <<43002, 43002>>,
  <<43824, 43866>>, <<43872, 43880>>, <<43888, 43967>>, <<64256, 64262>>, <<64275, 64279>>, <<65313,
  65338>>, <<65345, 65370>>, <<66560, 66639>>, <<66736, 66771>>, <<66776, 66811>>, <<66928, 66938>>,
  <<66940, 66954>>, <<66956, 66962>>, <<66964, 66965>>, <<66967, 66977>>, <<66979, 66993>>, <<66995,
  67001>>, <<67003, 67004>>, <<68736, 68786>>, <<68800, 68850>>, <<71840, 71903>>, <<93760, 93823>>,
  <<119808, 119892>>, <<119894, 119964>>, <<119966, 119967>>, <<119970, 119970>>, <<119973,
  119974>>, <<119977, 119980>>, <<119982, 119993>>, <<119995, 119995>>, <<119997, 120003>>,
  <<120005, 120069>>, <<120071, 120074>>, <<120077, 120084>>, <<120086, 120092>>, <<120094,
  120121>>, <<120123, 120126>>, <<120128, 120132>>, <<120134, 120134>>, <<120138, 120144>>,
  <<120146, 120485>>, <<120488, 120512>>, <<120514, 120538>>, <<120540, 120570>>, <<120572,
  120596>>, <<120598, 120628>>, <<120630, 120654>>, <<120656, 120686>>, <<120688, 120712>>,
  <<120714, 120744>>, <<120746, 120770>>, <<120772, 120779>>, <<122624, 122633>>, <<122635,
  122654>>, <<125184, 125251>>, <<127280, 127305>>, <<127312, 127337>>, <<127344, 127369>>>>

InRanges(R, c) == \E k \in 1..Len(R) : R[k][1] <= c /\ c <= R[k][2]

\* the simple lower-case mapping of one code point
LowerCp(c) ==
  IF c < 128 THEN (IF c \in 65..90 THEN c + 32 ELSE c)
  ELSE LET ks == {k \in 1..Len(LowerRuns) : LowerRuns[k][1] <= c /\ c <= LowerRuns[k][2]
                                          /\ (c - LowerRuns[k][1]) % LowerRuns[k][3] = 0}
       IN IF ks = {} THEN c ELSE c + LowerRuns[CHOOSE k \in ks : TRUE][4]

\* cased and not case-ignorable (U+03A3 itself is cased)
IsCased(c) == c = 931 \/ InRanges(CasedNotIgnorable, c)

\* handle_capital_sigma: U+03A3 is final when the nearest non-case-ignorable code point
\* before it is cased and the nearest one after it, if any, is not
FinalSigma(n, i) ==
  LET before == {j \in 1..i - 1 : ~InRanges(CaseIgnorable, n[j])}
      after == {j \in i + 1..Len(n) : ~InRanges(CaseIgnorable, n[j])}
  IN /\ before # {}
     /\ IsCased(n[CHOOSE j \in before : \A k \in before : k <= j])
     /\ (after = {} \/ ~IsCased(n[CHOOSE j \in after : \A k \in after : j <= k]))

LowerAt(n, i) ==
  IF n[i] = 931 THEN (IF FinalSigma(n, i) THEN 962 ELSE 963) ELSE LowerCp(n[i])

\* str.lower(); U+0130 lower-cases to the two code points "i" U+0307, so code point i of
\* n lands at i + (the number of U+0130 before it)
Lower(s) ==
  Bind(s, LAMBDA n :
  IF \A i \in DOMAIN n : n[i] < 128 THEN [i \in DOMAIN n |-> LowerCp(n[i])]
  ELSE LET sh(i) == Cardinality({j \in 1..i - 1 : n[j] = 304})
           w(i) == IF n[i] = 304 THEN 2 ELSE 1
       IN [k \in 1..Len(n) + sh(Len(n) + 1) |->
             LET i == CHOOSE i \in DOMAIN n : i + sh(i) <= k /\ k < i + sh(i) + w(i)
             IN IF n[i] # 304 THEN LowerAt(n, i) ELSE IF k = i + sh(i) THEN 105 ELSE 775])

\* str.isspace() code points, the ones str.strip() removes
Whitespace == {9, 10, 11, 12, 13, 28, 29, 30, 31, 32, 133, 160, 5760} \cup (8192..8202)
              \cup {8232, 8233, 8239, 8287, 12288}

\* str.strip(chars): drop the leading and trailing code points that are in cs
StripSet(s, cs) ==
  Bind(s, LAMBDA n :
    Bind({i \in DOMAIN n : n[i] \notin cs}, LAMBDA keep :
      IF keep = {} THEN <<>>
      ELSE SubSeq(n, CHOOSE i \in keep : \A j \in keep : i <= j, CHOOSE i \in keep : \A j \in keep : j <= i)))

\* str.strip()
Strip(n) == StripSet(n, Whitespace)

\* str.endswith(s)
EndsWith(n, s) == Len(s) <= Len(n) /\ SubSeq(n, Len(n) - Len(s) + 1, Len(n)) = s

\* str.split(c): the pieces between consecutive occurrences of c
SplitOn(s, c) ==
  LET P == {i \in DOMAIN s : s[i] = c}
      n == Cardinality(P)
      cut(k) == IF k = 0 THEN 0 ELSE IF k = n + 1 THEN Len(s) + 1
                ELSE CHOOSE i \in P : Cardinality({j \in P : j < i}) = k - 1
  IN [k \in 1..n + 1 |-> SubSeq(s, cut(k - 1) + 1, cut(k) - 1)]


\* Python string order: lexicographic by code point (the first differing code point
\* decides; otherwise the shorter string is a prefix and comes first)
LexLess(a, b) ==
  LET d == {i \in 1..Len(a) : i <= Len(b) /\ a[i] # b[i]}
  IN IF d = {} THEN Len(a) < Len(b)
     ELSE LET k == CHOOSE i \in d : \A j \in d : i <= j IN a[k] < b[k]

\* sorted(S) for a set of strings: the i-th name has i - 1 names before it
SortNames(S) ==
  [i \in 1..Cardinality(S) |-> CHOOSE x \in S : Cardinality({y \in S : LexLess(y, x)}) = i - 1]

\* _from_crtsh: names.add(n) for n.strip().lower() ending with domain.lower();
\* any transport/status/parse failure returns []
FromCrtsh(domain, ok, raw) ==
  IF ~ok THEN <<>>
  ELSE SortNames({Lower(Strip(n)) : n \in {r \in raw : EndsWith(Lower(Strip(r)), Lower(domain))}})

\* candidates = [f"{w}.{root_domain}" for w in WORDLIST]
Candidates(root) == [i \in 1..Len(WordList) |-> WordList[i] \o Dot \o root]

\* ---- scan orchestrator (api.py scan_domain, cli.py domain._run) ----
\* The probes: subdomains (task; enumerate_subdomains never raises), ports (scan_ports
\* raises UnicodeError for a host IDNA cannot encode), headers (task;
\* analyze_security_headers returns a neutral result on failure), preview, cookies and fp
\* (fetch_preview, analyze_cookies and fingerprint_web raise on a network failure),
\* tls / dns / axfr (blocking; get_tls_info, assess_dns and check_dns_axfr return a
\* neutral result on failure) and the dependent takeover check
\* (check_takeover_candidates), plus security.txt (task; fetch_security_txt returns
\* found=False on failure), whose result DomainScanResult has no field for.
\* analyze_cors, check_mixed_content and gather_dns_extras absorb every exception and
\* feed no claim, so they are not tracked.
Probes == {"subdomains", "ports", "headers", "preview", "cookies", "fp", "sectxt", "tls", "dns",
           "axfr", "takeover"}

\* the checks a caller asks to run or skip (the CLI's options; axfr is the caller's intent,
\* no option controls it)
Toggled == {"subdomains", "ports", "headers", "preview", "cookies", "fp", "sectxt", "tls", "dns", "axfr"}

\* the checks a DomainScanRequest can switch: it has no check_security_txt field
ApiToggled == Toggled \ {"sectxt"}

\* how each probe can settle
Outcomes(q) ==
  CASE q = "subdomains" -> {"found", "empty"}
    [] q \in {"headers", "sectxt", "tls", "dns", "axfr"} -> {"result", "neutral"}
    [] OTHER -> {"result", "exc"}

\* whether the orchestrator starts probe q under the caller's toggles: every probe is
\* guarded by its toggle except check_dns_axfr (api.py:100, cli.py:169)
Enabled(q, cfg) == IF q = "axfr" THEN TRUE ELSE cfg[q]

\* if subdomains_res and subdomains_res.discovered: (None when the check is off)
TakeoverGuard(v) == v = "found"

\* try: ... check_takeover_candidates(...) except Exception: takeover = None
AwaitAbsorbs(q) == q = "takeover"

\* a report slot is None when the probe did not run or its exception was absorbed
Slot(v) == IF v \in {"none", "exc"} THEN "absent" ELSE "present"

\* the keyword argument that carries probe q's result into DomainScanResult(...)
ReportField(q) ==
  CASE q = "axfr" -> "dns_axfr"
    [] q = "fp" -> "web_fingerprint"
    [] q = "sectxt" -> "security_txt"
    [] OTHER -> q

\* the fields of DomainScanResult (models.py:71-85); pydantic ignores other keyword arguments
ResultFields == {"domain", "started_at", "finished_at", "subdomains", "ports", "tls", "headers",
                 "dns", "preview", "takeover", "cors", "cookies", "web_fingerprint", "dns_axfr"}

Ins(op, q) == [op |-> op, q |-> q]

\* api.py and cli.py import scanning/security_txt.py, mixed_content.py and dns_extras.py,
\* which import SecurityTxt, MixedContentReport and DNSExtras from sentinelscope.models;
\* models.py does not define them, so the package as it stands raises ImportError before
\* scan_domain or domain._run can run.  The two programs below are the bodies of
\* scan_domain and domain._run as they run once those three classes exist.

\* api.py scan_domain, lines 45-124
ApiProgram ==
  << Ins("started", "none"),        \* 45  started = datetime.utcnow()
     Ins("task", "subdomains"),     \* 87  asyncio.create_task(enumerate_subdomains(host))
     Ins("task", "ports"),          \* 88  asyncio.create_task(scan_ports(host, ports_list))
     Ins("task", "headers"),        \* 89
     Ins("task", "preview"),        \* 90
     Ins("task", "cookies"),        \* 92  asyncio.create_task(analyze_cookies(base_url))
     Ins("task", "fp"),             \* 93  asyncio.create_task(fingerprint_web(base_url))
     Ins("raise", "sectxt") >>      \* 94  req.check_security_txt: AttributeError, DomainScanRequest
                                    \*     (models.py:9-24) has no such field; lines 95-124 never run

\* cli.py domain._run, lines 118-193
CliProgram ==
  << Ins("started", "none"),        \* 118
     Ins("badcall", "subdomains"),  \* 149 enumerate_subdomains(host, dns_timeout=..., http_timeout=...):
                                    \*     TypeError, the function takes (root_domain, concurrent_dns)
     Ins("coro", "ports"),          \* 150 scan_ports(host, ports_list, ...)
     Ins("coro", "headers"),        \* 151
     Ins("coro", "preview"),        \* 152
     Ins("await", "subdomains"),    \* 154
     Ins("await", "ports"),         \* 155
     Ins("await", "headers"),       \* 156
     Ins("await", "preview"),       \* 157
     Ins("takeover", "takeover"),   \* 160-162
     Ins("await", "takeover"),      \* 162-164
                                    \* 166 analyze_cors absorbs every exception (cors.py:23-24)
     Ins("coro", "cookies"),        \* 167 cookies_res = await analyze_cookies(base_url, ...)
     Ins("await", "cookies"),       \* 167
     Ins("coro", "fp"),             \* 168 fp = await fingerprint_web(base_url, ...)
     Ins("await", "fp"),            \* 168
     Ins("coro", "axfr"),           \* 169 axfr = check_dns_axfr(host)
     Ins("await", "axfr"),          \* 169
     Ins("coro", "sectxt"),         \* 170 sec_txt = await fetch_security_txt(host, timeout=timeout)
     Ins("await", "sectxt"),        \* 170
     Ins("finished", "none"),       \* 174 finished = datetime.utcnow()
     Ins("coro", "tls"),            \* 181 tls=get_tls_info(...) inside DomainScanResult(...)
     Ins("await", "tls"),           \* 181
     Ins("coro", "dns"),            \* 183 dns=assess_dns(host)
     Ins("await", "dns"),           \* 183
     Ins("return", "none") >>       \* 175-193

Program(m) == IF m = "api" THEN ApiProgram ELSE CliProgram

\* ---- target normalization (api.py:46-73, cli.py:119-143) ----
\* code points: "/" 47, ":" 58, "h" 104, "t" 116, "p" 112, "s" 115
\* str.startswith(p)
StartsWith(s, p) == Len(p) <= Len(s) /\ SubSeq(s, 1, Len(p)) = p

\* 1 + the index str.find(c) reports, 0 when c is absent
FirstIndex(s, c) ==
  IF \E i \in DOMAIN s : s[i] = c
    THEN CHOOSE i \in DOMAIN s : s[i] = c /\ \A j \in 1..i - 1 : s[j] # c
    ELSE 0

\* s up to (excluding) the first c
TakeUntil(s, c) == IF FirstIndex(s, c) = 0 THEN s ELSE SubSeq(s, 1, FirstIndex(s, c) - 1)


HttpPrefix == <<104, 116, 116, 112, 58, 47, 47>>    \* "http://"
HttpsPrefix == <<104, 116, 116, 112, 115, 58, 47, 47>>  \* "https://"
SchemeSep == <<58, 47, 47>>         \* "://"
SchemeHttp == <<104, 116, 116, 112>>       \* "http"
SchemeHttps == <<104, 116, 116, 112, 115>>     \* "https"

\* raw.startswith("http://") or raw.startswith("https://")
HasScheme(raw) == StartsWith(raw, HttpPrefix) \/ StartsWith(raw, HttpsPrefix)

\* str.lstrip(chars)
LStripSet(n, cs) ==
  LET keep == {i \in DOMAIN n : n[i] \notin cs}
  IN IF keep = {} THEN <<>> ELSE SubSeq(n, CHOOSE i \in keep : \A j \in keep : i <= j, Len(n))

HasC(s, c) == \E i \in DOMAIN s : s[i] = c

\* s after the first c (str.partition(c)[2])
AfterFirst(s, c) ==
  Bind(FirstIndex(s, c), LAMBDA i : IF i = 0 THEN <<>> ELSE SubSeq(s, i + 1, Len(s)))

\* s after the last c, all of s when c is absent (str.rpartition(c)[2])
AfterLast(s, c) ==
  Bind({i \in DOMAIN s : s[i] = c},
       LAMBDA P : IF P = {} THEN s ELSE SubSeq(s, (CHOOSE i \in P : \A j \in P : j <= i) + 1, Len(s)))

\* str.replace(p, ""), for a p no proper prefix of which is also a suffix ("https://",
\* "http://"): its occurrences cannot overlap, so every one of them is removed
RemoveAll(s, p) ==
  Bind({i \in 1..Len(s) - Len(p) + 1 : SubSeq(s, i, i + Len(p) - 1) = p},
    LAMBDA O :
      Bind({i \in DOMAIN s : ~\E o \in O : o <= i /\ i < o + Len(p)},
        LAMBDA keep :
          [k \in 1..Cardinality(keep) |-> s[CHOOSE i \in keep : Cardinality({j \in keep : j < i}) = k - 1]]))

AsciiAlpha == (65..90) \cup (97..122)
Digits == 48..57
HexDigits == Digits \cup (65..70) \cup (97..102)
\* urllib.parse.scheme_chars: letters, digits, "+", "-", "."
SchemeChars == AsciiAlpha \cup Digits \cup {43, 45, 46}

\* urlsplit: url.lstrip(_WHATWG_C0_CONTROL_OR_SPACE), then "\t", "\r", "\n" removed
UrlClean(raw) == SelectSeq(LStripSet(raw, 0..32), LAMBDA c : c \notin {9, 10, 13})

\* urlsplit on a cleaned url u: 1 + the length of the scheme when u[:i] is a scheme, else 0
UrlSchemeEnd(u) ==
  Bind(FirstIndex(u, 58),
       LAMBDA i : IF i > 1 /\ u[1] \in AsciiAlpha /\ \A j \in 1..i - 1 : u[j] \in SchemeChars
                    THEN i ELSE 0)

\* urlparse(raw).scheme (lower-cased)
UrlScheme(raw) ==
  Bind(UrlClean(raw),
       LAMBDA u : Bind(UrlSchemeEnd(u), LAMBDA e : IF e = 0 THEN <<>> ELSE Lower(SubSeq(u, 1, e - 1))))

\* urlsplit's _splitnetloc on the url r after the scheme: after "//", up to the first
\* "/", "?" or "#"
NetlocOf(r) ==
  IF ~StartsWith(r, <<47, 47>>) THEN <<>>
  ELSE Bind(SubSeq(r, 3, Len(r)),
         LAMBDA t : Bind({j \in DOMAIN t : t[j] \in {47, 63, 35}},
           LAMBDA D : IF D = {} THEN t ELSE SubSeq(t, 1, (CHOOSE j \in D : \A k \in D : j <= k) - 1)))

\* urlparse(raw).netloc
UrlNetloc(raw) ==
  Bind(UrlClean(raw), LAMBDA u : NetlocOf(SubSeq(u, UrlSchemeEnd(u) + 1, Len(u))))

\* ipaddress._BaseV4._parse_octet (len(octet) <= 3, so the value is at most three digits)
OctetOk(o) ==
  /\ o # <<>> /\ Len(o) <= 3 /\ \A j \in DOMAIN o : o[j] \in Digits
  /\ (o = <<48>> \/ o[1] # 48)
  /\ LET d(j) == o[j] - 48
     IN (IF Len(o) = 1 THEN d(1) ELSE IF Len(o) = 2 THEN 10 * d(1) + d(2)
         ELSE 100 * d(1) + 10 * d(2) + d(3)) <= 255

\* IPv4Address(s) is accepted
IPv4Ok(s) == \E oc \in {SplitOn(s, 46)} : Len(oc) = 4 /\ \A k \in 1..4 : OctetOk(oc[k])

\* ipaddress._BaseV6._parse_hextet
HextetOk(x) == x # <<>> /\ Len(x) <= 4 /\ \A j \in DOMAIN x : x[j] \in HexDigits

\* ipaddress._BaseV6._ip_int_from_string on the parts after the IPv4 tail was replaced
\* by two hextets
HextetsOk(ps) ==
  LET n == Len(ps)
  IN \E E \in {{i \in 2..n - 1 : ps[i] = <<>>}} :
       /\ n <= 9
       /\ Cardinality(E) <= 1
       /\ IF E # {}
            THEN \E sk \in E :
                 \E hi \in {IF ps[1] = <<>> THEN sk - 2 ELSE sk - 1},
                    lo \in {IF ps[n] = <<>> THEN n - sk - 1 ELSE n - sk} :
                    /\ (ps[1] = <<>> => hi = 0)
                    /\ (ps[n] = <<>> => lo = 0)
                    /\ 8 - (hi + lo) >= 1
                    /\ \A i \in 1..hi : HextetOk(ps[i])
                    /\ \A i \in n - lo + 1..n : HextetOk(ps[i])
            ELSE n = 8 /\ \A i \in 1..n : HextetOk(ps[i])

\* ipaddress._BaseV6._ip_int_from_string is accepted
IPv6IntOk(a) ==
  \E parts \in {SplitOn(a, 58)} :
    LET n0 == Len(parts)
    IN /\ a # <<>> /\ n0 >= 3
       /\ IF HasC(parts[n0], 46)
            THEN IPv4Ok(parts[n0]) /\ HextetsOk(SubSeq(parts, 1, n0 - 1) \o <<<<48>>, <<48>>>>)
            ELSE HextetsOk(parts)

\* IPv6Address(h) is accepted ("/" rejected, then the scope id split off at "%")
IPv6Ok(h) ==
  \E pc \in {FirstIndex(h, 37)} :
    /\ ~HasC(h, 47)
    /\ (pc # 0 => \E scope \in {SubSeq(h, pc + 1, Len(h))} : scope # <<>> /\ ~HasC(scope, 37))
    /\ IPv6IntOk(IF pc = 0 THEN h ELSE SubSeq(h, 1, pc - 1))

\* urllib.parse._check_bracketed_host: "v" + hex digits + "." + something, or an IPv6
\* address (ip_address() of an IPv4 address is rejected as well)
BracketOk(h) ==
  IF h # <<>> /\ h[1] = 118
    THEN \E N \in {{j \in 2..Len(h) : h[j] \notin HexDigits}} :
         \E k \in {IF N = {} THEN 0 ELSE CHOOSE j \in N : \A i \in N : j <= i} :
           k > 2 /\ h[k] = 46 /\ k < Len(h)
    ELSE IPv6Ok(h)

\* code points whose NFKC form contains "/", "?", "#", "@" or ":"
NfkcDelims == {8263, 8264, 8265, 8448, 8449, 8453, 8454, 10868, 65043, 65046, 65109, 65110,
               65119, 65131, 65283, 65295, 65306, 65311, 65312}

\* urlsplit raises ValueError: unbalanced brackets, a bad bracketed host, or
\* _checknetloc's NFKC check
UrlRaises(raw) ==
  \E nl \in {UrlNetloc(raw)} :
    \/ HasC(nl, 91) # HasC(nl, 93)
    \/ HasC(nl, 91) /\ HasC(nl, 93) /\ ~BracketOk(TakeUntil(AfterFirst(nl, 91), 93))
    \/ \E j \in DOMAIN nl : nl[j] \in NfkcDelims

\* urlparse(raw).hostname: after the last "@", inside "[...]" or before ":", the part
\* before "%" lower-cased; <<>> for None
UrlHostname(raw) ==
  Bind(AfterLast(UrlNetloc(raw), 64),
    LAMBDA hi :
      Bind(IF HasC(hi, 91) THEN TakeUntil(AfterFirst(hi, 91), 93) ELSE TakeUntil(hi, 58),
        LAMBDA hn :
          Bind(FirstIndex(hn, 37),
            LAMBDA pc :
              IF hn = <<>> THEN <<>>
              ELSE IF pc = 0 THEN Lower(hn)
              ELSE Lower(SubSeq(hn, 1, pc - 1)) \o SubSeq(hn, pc, Len(hn)))))

\* host extraction, identical in scan_domain and domain._run
NormHost(input) ==
  Bind(Strip(input),
    LAMBDA raw :
      IF HasScheme(raw)
        THEN IF UrlRaises(raw)
               THEN StripSet(RemoveAll(RemoveAll(raw, HttpsPrefix), HttpPrefix), {47})
               ELSE Bind(UrlHostname(raw), LAMBDA hn : StripSet(IF hn # <<>> THEN hn ELSE raw, {47}))
        ELSE StripSet(raw, {47}))

\* {"localhost", "127.0.0.1", "::1"}
Loopback == {<<108, 111, 99, 97, 108, 104, 111, 115, 116>>, <<49, 50, 55, 46, 48, 46, 48, 46, 49>>, <<58, 58, 49>>}

\* scan_domain: explicit http/https scheme, else http for loopback hosts, else https
ApiScheme(input) ==
  Bind(Strip(input),
    LAMBDA raw :
      IF HasScheme(raw)
        THEN IF UrlRaises(raw) THEN SchemeHttps
             ELSE Bind(UrlScheme(raw), LAMBDA sc : IF sc \in {SchemeHttp, SchemeHttps} THEN sc ELSE SchemeHttps)
        ELSE IF NormHost(input) \in Loopback THEN SchemeHttp ELSE SchemeHttps)

\* domain._run: explicit http/https scheme, else https
CliScheme(input) ==
  Bind(Strip(input),
    LAMBDA raw :
      IF HasScheme(raw) /\ ~UrlRaises(raw)
        THEN Bind(UrlScheme(raw), LAMBDA sc : IF sc \in {SchemeHttp, SchemeHttps} THEN sc ELSE SchemeHttps)
        ELSE SchemeHttps)

\* base_url = f"{scheme}://{host}"
BaseUrl(scheme, host) == scheme \o SchemeSep \o host

\* targets a caller passes: prefix "", "http://", "https://", "HTTP://", U+3000 "https://";
\* host "a.b", "localhost", "[::1]", "[a", "u@A.B:8080", "\u0391\u03A3" (Greek capitals);
\* suffix "", "/", "/p", "?q"
RawTargets == {pf \o h \o sf : pf \in {<<>>, HttpPrefix, HttpsPrefix, <<72, 84, 84, 80, 58, 47, 47>>,
                                      <<12288>> \o HttpsPrefix},
                                h \in {<<97, 46, 98>>, <<108, 111, 99, 97, 108, 104, 111, 115, 116>>,
                                       <<91, 58, 58, 49, 93>>, <<91, 97>>,
                                       <<117, 64, 65, 46, 66, 58, 56, 48, 56, 48>>, <<913, 931>>},
                                sf \in {<<>>, <<47>>, <<47, 112>>, <<63, 113>>}}

NormIdle == [entry |-> "none", raw |-> <<>>, done |-> FALSE, host |-> <<>>, scheme |-> <<>>, base |-> <<>>]

\* ---- port profiles (ports.py:9-13, api.py:74-84, cli.py:61-77) ----
TOP_30_PORTS ==
  << 21, 22, 23, 25, 53, 80, 110, 111, 135, 139,
     143, 443, 445, 993, 995, 1723, 3306, 3389, 5900, 8080,
     8443, 8000, 6379, 27017, 5432, 1521, 5000, 11211, 9200, 25565 >>

\* the extra list of the top100 profile (identical in scan_domain and _resolve_ports)
Top100Extra ==
  << 19, 37, 49, 88, 161, 162, 389, 636, 873, 1025,
     1433, 1521, 2049, 2082, 2083, 2086, 2087, 2483, 2484, 3268,
     3269, 4444, 5000, 5001, 5060, 5222, 5900, 5985, 5986, 8081,
     9000, 9090, 9200, 9300, 11211, 27017, 27018, 27019, 6379, 6380 >>

\* sorted(set(xs))
SortedSet(xs) ==
  LET S == Range(xs)
  IN [i \in 1..Cardinality(S) |-> CHOOSE x \in S : Cardinality({y \in S : y < x}) = i - 1]

\* a field of custom.split(","): blank when x.strip() is empty, else int(x.strip()) = v
Blank == [blank |-> TRUE, v |-> 0]
Field(v) == [blank |-> FALSE, v |-> v]

ProfileNames == {"top30", "top100", "custom", "bogus"}
CustomPool == {22, 80, 70000}
MaxCustomLen == 2

\* scan_domain: req.port_profile, req.custom_ports (given = not None)
ApiPorts(profile, given, ports) ==
  IF profile = "top100" THEN [rejected |-> FALSE, ports |-> SortedSet(TOP_30_PORTS \o Top100Extra)]
  ELSE IF profile = "custom" /\ given /\ ports # <<>> THEN [rejected |-> FALSE, ports |-> SortedSet(ports)]
  ELSE [rejected |-> FALSE, ports |-> TOP_30_PORTS]

\* the non-blank fields of custom.split(","), converted with int()
RECURSIVE CsvInts(_)
CsvInts(fs) ==
  IF fs = <<>> THEN <<>>
  ELSE (IF Head(fs).blank THEN <<>> ELSE <<Head(fs).v>>) \o CsvInts(Tail(fs))

\* _resolve_ports(profile, custom): given = custom is a non-empty string; BadParameter = rejected
CliPorts(profile, given, fields) ==
  IF profile = "top30" THEN [rejected |-> FALSE, ports |-> TOP_30_PORTS]
  ELSE IF profile = "top100" THEN [rejected |-> FALSE, ports |-> SortedSet(TOP_30_PORTS \o Top100Extra)]
  ELSE IF profile = "custom"
    THEN IF ~given THEN [rejected |-> TRUE, ports |-> <<>>] ELSE [rejected |-> FALSE, ports |-> CsvInts(fields)]
  ELSE [rejected |-> TRUE, ports |-> <<>>]

ProfIdle == [entry |-> "none", profile |-> "none", given |-> FALSE, ports |-> <<>>, csv |-> <<>>,
             done |-> FALSE, rejected |-> FALSE, out |-> <<>>]

\* ---- header grading (http_headers.py:20-162) ----
\* a response's security headers: absent, or present with the properties the quality checks test
\* CSP: wild = "unsafe-inline" or "*" in the value, dflt = "default-src" in the value
\* HSTS: inc = includeSubDomains, pre = preload, maxok = max-age absent or >= 15552000
\* other headers: good = the value the check accepts (nosniff, deny/sameorigin, no-referrer/
\* strict-origin-when-cross-origin, a non-empty Permissions-Policy without "*")
CspValues == {[present |-> FALSE, wild |-> FALSE, dflt |-> FALSE]}
             \cup [present : {TRUE}, wild : BOOLEAN, dflt : BOOLEAN]
HstsValues == {[present |-> FALSE, inc |-> FALSE, pre |-> FALSE, maxok |-> FALSE]}
              \cup [present : {TRUE}, inc : BOOLEAN, pre : BOOLEAN, maxok : BOOLEAN]
PlainValues == {[present |-> FALSE, good |-> FALSE], [present |-> TRUE, good |-> FALSE],
                [present |-> TRUE, good |-> TRUE]}
HeaderSets == [csp : CspValues, hsts : HstsValues, xcto : PlainValues, xfo : PlainValues,
               rp : PlainValues, pp : PlainValues]

\* the keys of SECURITY_HEADERS, in order
SECURITY_HEADERS == <<"csp", "hsts", "xcto", "xfo", "rp", "pp">>

\* HeaderFinding(header, present, recommendation); rec = recommendation is not None
Finding(hd, pr, rec) == [header |-> hd, present |-> pr, rec |-> rec]
Cond(b, f) == IF b THEN <<f>> ELSE <<>>

\* evaluate_security_headers(headers, is_https=https)
EvaluateSecurityHeaders(h, https) ==
  [i \in 1..6 |-> Finding(SECURITY_HEADERS[i], h[SECURITY_HEADERS[i]].present,
                           ~h[SECURITY_HEADERS[i]].present)]
  \o Cond(h.csp.present /\ h.csp.wild, Finding("csp", TRUE, TRUE))
  \o Cond(h.csp.present /\ ~h.csp.dflt, Finding("csp", TRUE, TRUE))
  \o Cond(https /\ h.hsts.present /\ ~(h.hsts.inc /\ h.hsts.pre /\ h.hsts.maxok), Finding("hsts", TRUE, TRUE))
  \o Cond(h.xcto.present /\ ~h.xcto.good, Finding("xcto", TRUE, TRUE))
  \o Cond(h.xfo.present /\ ~h.xfo.good, Finding("xfo", TRUE, TRUE))
  \o Cond(h.rp.present /\ ~h.rp.good, Finding("rp", TRUE, TRUE))
  \o Cond(h.pp.present /\ ~h.pp.good, Finding("pp", TRUE, TRUE))
  \o Cond(~https, Finding("hsts", FALSE, TRUE))

\* raw_score = int((present / total) * 100) - deductions * 5, unclamped
GradeScoreNoClamp(present, ded) == (present * 100) \div Len(SECURITY_HEADERS) - ded * 5

\* raw_score = max(0, min(100, int((present / total) * 100) - deductions * 5))
GradeScore(present, ded) ==
  LET r == (present * 100) \div Len(SECURITY_HEADERS) - ded * 5
  IN IF r > 100 THEN 100 ELSE IF r < 0 THEN 0 ELSE r

\* the grade thresholds of _grade_from_findings
GradeOf(sc) ==
  IF sc >= 95 THEN "A+" ELSE IF sc >= 90 THEN "A" ELSE IF sc >= 80 THEN "B"
  ELSE IF sc >= 70 THEN "C" ELSE IF sc >= 60 THEN "D" ELSE "F"

\* _grade_from_findings(findings) -> (grade, score)
GradeFromFindings(fs) ==
  LET present == Cardinality({i \in DOMAIN fs : ~fs[i].rec /\ fs[i].present})
      ded == Cardinality({i \in DOMAIN fs : fs[i].rec})
      sc == GradeScore(present, ded)
  IN [grade |-> GradeOf(sc), score |-> sc]

GrdIdle == [hdr |-> [csp |-> [present |-> FALSE, wild |-> FALSE, dflt |-> FALSE],
                     hsts |-> [present |-> FALSE, inc |-> FALSE, pre |-> FALSE, maxok |-> FALSE],
                     xcto |-> [present |-> FALSE, good |-> FALSE], xfo |-> [present |-> FALSE, good |-> FALSE],
                     rp |-> [present |-> FALSE, good |-> FALSE], pp |-> [present |-> FALSE, good |-> FALSE]],
            https |-> TRUE, done |-> FALSE, grade |-> "none", score |-> 0]

\* ---- assess_dns (dns_records.py:25-68) ----
SpfPrefix == <<118, 61, 115, 112, 102, 49>>     \* "v=spf1"
DmarcPrefix == <<118, 61, 100, 109, 97, 114, 99, 49>>    \* "v=dmarc1"
PolicyPrefix == <<112, 61>>     \* "p="

\* the loop over the tokens: the last token starting "p=" sets the policy to tok.split("=", 1)[1]
PolicyOf(toks, cur) ==
  LET tok(k) == Lower(Strip(toks[k]))
      hits == {k \in DOMAIN toks : StartsWith(tok(k), PolicyPrefix)}
      last == CHOOSE k \in hits : \A j \in hits : j <= k
  IN IF hits = {} THEN cur
     ELSE [isNone |-> FALSE, v |-> SubSeq(tok(last), FirstIndex(tok(last), 61) + 1, Len(tok(last)))]

NonePolicy == [isNone |-> TRUE, v |-> <<>>]

\* assess_dns(domain) for the TXT records txt: [domain, spf_present, dmarc_policy]
AssessDns(domain, txt) ==
  LET dm == {i \in DOMAIN txt : StartsWith(Lower(txt[i]), DmarcPrefix)}
      first == CHOOSE i \in dm : \A j \in dm : i <= j
  IN [domain |-> domain,
      spf_present |-> \E i \in DOMAIN txt : StartsWith(Lower(txt[i]), SpfPrefix),
      dmarc_policy |-> IF dm = {} THEN NonePolicy ELSE PolicyOf(SplitOn(txt[first], 59), NonePolicy)]

\* TXT records a domain can publish
TxtPool == {<<118, 61, 115, 112, 102, 49, 32, 45, 97, 108, 108>>, <<118, 61, 68, 77, 65, 82, 67, 49, 59, 32, 112, 61, 114, 101, 106, 101, 99, 116>>, <<118, 61, 68, 77, 65, 82, 67, 49, 59, 32, 112, 61, 81, 117, 97, 114, 97, 110, 116, 105, 110, 101>>, <<118, 61, 68, 77, 65, 82, 67, 49, 59, 32, 112, 61, 98, 111, 103, 117, 115>>, <<118, 61, 68, 77, 65, 82, 67, 49>>}
MaxTxtLen == 2
Domains == {<<97, 46, 98>>, <<120, 46, 121>>}

DnsIdle == [domain |-> <<>>, txt |-> <<>>, done |-> FALSE,
            out |-> [domain |-> <<>>, spf_present |-> FALSE, dmarc_policy |-> NonePolicy]]

\* ---- state ----
VARIABLES
  mode,      \* which call is running: "ports", "gwc", "subs", "api", "cli", "norm", "profile", "grade", "dnsa"
  L,         \* the concurrency limit (Semaphore(concurrency / limit / concurrent_dns))
  sem,       \* the semaphore's counter
  upc,       \* position of each unit's task
  ures,      \* each settled unit's outcome
  cst,       \* the call: "init", "running", "returned", "raised"
  order,     \* units in completion order
  hostOk,    \* scan_ports: the host name encodes (no UnicodeError)
  pin,       \* scan_ports: the ports argument
  reach,     \* scan_ports: per-port reachability of a stable network
  plist,     \* scan_ports: ports_list
  presults,  \* scan_ports: results
  popen,     \* scan_ports: open_ports
  pprev,     \* scan_ports: limit and open-port set of the caller's previous call on the same inputs
  gout,      \* gather_with_concurrency: whether each awaited coroutine returns or raises
  gres,      \* gather_with_concurrency: returned list
  root,      \* enumerate_subdomains: root_domain
  ctOk,      \* enumerate_subdomains: the crt.sh request succeeds with status 200
  ctRaw,     \* enumerate_subdomains: names in the crt.sh response
  resolves,  \* enumerate_subdomains: whether each candidate resolves
  ct,        \* enumerate_subdomains: ct
  disc,      \* enumerate_subdomains: discovered set
  sources,   \* enumerate_subdomains: sources dict
  discList,  \* enumerate_subdomains: sorted(discovered) in the result
  ocfg,      \* orchestrator: the caller's per-check toggles
  ost,       \* orchestrator: each probe "none", "created" (coroutine not yet awaited), "running", "settled"
  oval,      \* orchestrator: how each probe settled
  opc,       \* orchestrator: position in its program
  ocause,    \* orchestrator: the probe whose exception propagated out of the scan
  tStart,    \* orchestrator: started_at has been captured
  tFinish,   \* orchestrator: finished_at has been captured
  orep,      \* orchestrator: the report's slots, "present", "absent" or "dropped"
  norm,      \* input normalization: raw target, entry point, extracted host, scheme, base_url
  prof,      \* port-profile resolution: entry point, profile, custom ports, resulting list
  grd,       \* header grading: header values, https, score, grade
  dnsv       \* assess_dns: TXT records and the assessment

vars == <<mode, L, sem, upc, ures, cst, order, hostOk, pin, reach, plist, presults, popen, pprev,
          gout, gres, root, ctOk, ctRaw, resolves, ct, disc, sources, discList,
          ocfg, ost, oval, opc, ocause, tStart, tFinish, orep, norm, prof, grd, dnsv>>

ExtraVars == <<norm, prof, grd, dnsv>>

OrchVars == <<ocfg, ost, oval, opc, ocause, tStart, tFinish, orep>>

PortsVars == <<hostOk, pin, reach, plist, presults, popen, pprev>>
GwcVars == <<gout, gres>>
SubsVars == <<root, ctOk, ctRaw, resolves, ct, disc, sources, discList>>

NoFun == [x \in {} |-> 0]

PortInputs == UNION {[1..n -> PortPool] : n \in 0..MaxPortsLen}

InitCommon ==
  /\ L \in 1..MaxLimit
  /\ sem = 0
  /\ upc = NoFun
  /\ ures = NoFun
  /\ cst = "init"
  /\ order = <<>>

NoPrev == [limit |-> 0, open |-> {}]

InitPortsVars == hostOk = TRUE /\ pin = <<>> /\ reach = NoFun /\ plist = <<>> /\ presults = <<>> /\ popen = <<>>
                 /\ pprev = NoPrev
InitGwcVars == gout = NoFun /\ gres = <<>>
InitSubsVars == root = <<>> /\ ctOk = FALSE /\ ctRaw = {} /\ resolves = NoFun /\ ct = <<>>
                /\ disc = {} /\ sources = [crt |-> 0, dns |-> 0] /\ discList = <<>>

InitExtraIdle == norm = NormIdle /\ prof = ProfIdle /\ grd = GrdIdle /\ dnsv = DnsIdle

InitOrchVars == ocfg = NoFun /\ ost = NoFun /\ oval = NoFun /\ opc = 0 /\ ocause = "none"
                /\ tStart = FALSE /\ tFinish = FALSE /\ orep = NoFun

InitPorts ==
  /\ mode = "ports" /\ InitCommon
  /\ hostOk \in BOOLEAN /\ pin \in PortInputs /\ reach \in [PortPool -> Reach]
  /\ plist = <<>> /\ presults = <<>> /\ popen = <<>> /\ pprev = NoPrev
  /\ InitGwcVars /\ InitSubsVars /\ InitOrchVars
  /\ InitExtraIdle

InitGwc ==
  /\ mode = "gwc" /\ InitCommon
  /\ gout \in [1..NUnits -> {"ok", "err"}] /\ gres = <<>>
  /\ InitPortsVars /\ InitSubsVars /\ InitOrchVars
  /\ InitExtraIdle

InitSubs ==
  /\ mode = "subs" /\ InitCommon
  /\ root \in Roots /\ ctOk \in BOOLEAN /\ ctRaw \in SUBSET CTPool
  /\ resolves \in [Range(Candidates(root)) -> BOOLEAN]
  /\ ct = <<>> /\ disc = {} /\ sources = [crt |-> 0, dns |-> 0] /\ discList = <<>>
  /\ InitPortsVars /\ InitGwcVars /\ InitOrchVars
  /\ InitExtraIdle

\* a scan_domain request / a CLI domain invocation with the caller's toggles
InitOrch ==
  /\ mode \in {"api", "cli"}
  /\ L = 1 /\ sem = 0 /\ upc = NoFun /\ ures = NoFun /\ cst = "init" /\ order = <<>>
  /\ InitPortsVars /\ InitGwcVars /\ InitSubsVars
  /\ ocfg \in [(IF mode = "api" THEN ApiToggled ELSE Toggled) -> BOOLEAN]
  /\ ost = [q \in Probes |-> "none"] /\ oval = [q \in Probes |-> "none"]
  /\ opc = 1 /\ ocause = "none" /\ tStart = FALSE /\ tFinish = FALSE
  /\ orep = [q \in Probes |-> "absent"]
  /\ InitExtraIdle

\* the pure computations run with every concurrency variable idle
InitIdle ==
  /\ L = 1 /\ sem = 0 /\ upc = NoFun /\ ures = NoFun /\ cst = "init" /\ order = <<>>
  /\ InitPortsVars /\ InitGwcVars /\ InitSubsVars /\ InitOrchVars

\* a target string handed to scan_domain (DomainScanRequest.domain) or to the CLI domain command
InitNorm ==
  /\ mode = "norm" /\ InitIdle /\ prof = ProfIdle /\ grd = GrdIdle /\ dnsv = DnsIdle
  /\ \E e \in {"api", "cli"}, r \in RawTargets : norm = [NormIdle EXCEPT !.entry = e, !.raw = r]

\* a port profile with custom ports: a List[int] for the API, a comma-separated string for the CLI
InitProfile ==
  /\ mode = "profile" /\ InitIdle /\ norm = NormIdle /\ grd = GrdIdle /\ dnsv = DnsIdle
  /\ \E e \in {"api", "cli"}, pr \in ProfileNames, g \in BOOLEAN,
        ps \in UNION {[1..n -> CustomPool] : n \in 0..MaxCustomLen},
        fs \in UNION {[1..n -> {Blank} \cup {Field(v) : v \in CustomPool}] : n \in 1..MaxCustomLen} :
       prof = [ProfIdle EXCEPT !.entry = e, !.profile = pr, !.given = g,
                               !.ports = IF e = "api" THEN ps ELSE <<>>,
                               !.csv = IF e = "cli" THEN fs ELSE <<>>]

\* the headers of a response and whether its final URL is https
InitGrade ==
  /\ mode = "grade" /\ InitIdle /\ norm = NormIdle /\ prof = ProfIdle /\ dnsv = DnsIdle
  /\ \E h \in HeaderSets, https \in BOOLEAN : grd = [GrdIdle EXCEPT !.hdr = h, !.https = https]

\* a domain and the TXT records its resolver returns
InitDns ==
  /\ mode = "dnsa" /\ InitIdle /\ norm = NormIdle /\ prof = ProfIdle /\ grd = GrdIdle
  /\ \E d \in Domains, t \in UNION {[1..n -> TxtPool] : n \in 0..MaxTxtLen} :
       dnsv = [DnsIdle EXCEPT !.domain = d, !.txt = t]

Init == InitPorts \/ InitGwc \/ InitSubs \/ InitOrch \/ InitNorm \/ InitProfile \/ InitGrade \/ InitDns

\* async with semaphore: (entry) -- a queued task takes a free slot
Acquire(u) ==
  /\ upc[u] = "queued" /\ sem > 0
  /\ sem' = sem - 1
  /\ upc' = [upc EXCEPT ![u] = "inflight"]
  /\ UNCHANGED <<mode, L, ures, cst, order, hostOk, pin, reach, plist, presults, popen, pprev,
                 gout, gres, root, ctOk, ctRaw, resolves, ct, disc, sources, discList, OrchVars, ExtraVars>>

\* scan_ports: body up to asyncio.gather -- ports_list, Semaphore(concurrency), one task per port
PortsStart ==
  /\ mode = "ports" /\ cst = "init"
  /\ plist' = PortsList(pin)
  /\ sem' = L
  /\ upc' = [p \in Range(plist') |-> "queued"]
  /\ cst' = "running"
  /\ UNCHANGED <<mode, L, ures, order, hostOk, pin, reach, presults, popen, pprev, GwcVars, SubsVars, OrchVars, ExtraVars>>

\* a scan_one task leaves _try_connect with outcome o: PortResult, release on leaving
\* async with; an escaping exception ends the task with that exception (ures[p].exc)
PortsSettle(p, o) ==
  /\ ures' = ures @@ (p :> [conn |-> o, exc |-> TryConnect(o).exc, val |-> TryConnect(o).ret])
  /\ upc' = [upc EXCEPT ![p] = "done"]
  /\ sem' = sem + 1
  /\ order' = Append(order, p)

\* scan_one(p) after acquiring: the awaited wait_for(open_connection(...)) completes; a
\* connected task goes on to close, any other outcome ends _try_connect
PortsConnect(p) ==
  /\ mode = "ports" /\ upc[p] = "inflight"
  /\ \E o \in ConnectOutcomes(hostOk, reach[p]) :
       IF o = "connected"
       THEN /\ upc' = [upc EXCEPT ![p] = "closing"]
            /\ UNCHANGED <<ures, sem, order>>
       ELSE PortsSettle(p, o)
  /\ UNCHANGED <<mode, L, cst, PortsVars, GwcVars, SubsVars, OrchVars, ExtraVars>>

\* writer.close(); await writer.wait_closed(); return True (or the OSError is caught)
PortsClose(p) ==
  /\ mode = "ports" /\ upc[p] = "closing"
  /\ \E o \in CloseOutcomes : PortsSettle(p, o)
  /\ UNCHANGED <<mode, L, cst, PortsVars, GwcVars, SubsVars, OrchVars, ExtraVars>>

\* a later loop iteration: gather's done-callback for the first failed task sets the
\* gather's exception and scan_ports, resumed, raises it; sibling tasks keep running
PortsRaise ==
  /\ mode = "ports" /\ cst = "running"
  /\ \E p \in DOMAIN ures : ures[p].exc
  /\ cst' = "raised"
  /\ UNCHANGED <<mode, L, sem, upc, ures, order, PortsVars, GwcVars, SubsVars, OrchVars, ExtraVars>>

\* gather completes with every result; results, open_ports, PortScanResult
PortsReturn ==
  /\ mode = "ports" /\ cst = "running"
  /\ \A p \in DOMAIN upc : upc[p] = "done"
  /\ \A p \in DOMAIN ures : ~ures[p].exc
  /\ presults' = [i \in 1..Len(plist) |-> [port |-> plist[i], is_open |-> ures[plist[i]].val]]
  /\ popen' = OpenPorts(presults', order)
  /\ cst' = "returned"
  /\ UNCHANGED <<mode, L, sem, upc, ures, order, hostOk, pin, reach, plist, pprev, GwcVars, SubsVars, OrchVars, ExtraVars>>

\* the caller awaits scan_ports again for the same host and ports on the same network,
\* with another concurrency limit
PortsRescan ==
  /\ mode = "ports" /\ cst = "returned" /\ pprev = NoPrev
  /\ pprev' = [limit |-> L, open |-> Range(popen)]
  /\ L' \in (1..MaxLimit) \ {L}
  /\ sem' = 0 /\ upc' = NoFun /\ ures' = NoFun /\ cst' = "init" /\ order' = <<>>
  /\ plist' = <<>> /\ presults' = <<>> /\ popen' = <<>>
  /\ UNCHANGED <<mode, hostOk, pin, reach, GwcVars, SubsVars, OrchVars, ExtraVars>>

\* gather_with_concurrency: Semaphore(limit), one sem_task per coroutine, gather
GwcStart ==
  /\ mode = "gwc" /\ cst = "init"
  /\ sem' = L
  /\ upc' = [u \in 1..NUnits |-> "queued"]
  /\ cst' = "running"
  /\ UNCHANGED <<mode, L, ures, order, PortsVars, GwcVars, SubsVars, OrchVars, ExtraVars>>

\* sem_task(coro) after acquiring: await coro, release on leaving async with;
\* a raising coroutine ends its task with the exception (ures[u].exc)
GwcRun(u) ==
  /\ mode = "gwc" /\ upc[u] = "inflight"
  /\ ures' = ures @@ (u :> [exc |-> gout[u] = "err", val |-> u])
  /\ upc' = [upc EXCEPT ![u] = "done"]
  /\ sem' = sem + 1
  /\ order' = Append(order, u)
  /\ UNCHANGED <<mode, L, cst, PortsVars, GwcVars, SubsVars, OrchVars, ExtraVars>>

\* a later loop iteration: gather's done-callback for the first failed task sets the
\* gather's exception and the caller, resumed, raises it; sibling tasks keep running
GwcRaise ==
  /\ mode = "gwc" /\ cst = "running"
  /\ \E u \in DOMAIN ures : ures[u].exc
  /\ cst' = "raised"
  /\ UNCHANGED <<mode, L, sem, upc, ures, order, PortsVars, GwcVars, SubsVars, OrchVars, ExtraVars>>

\* gather completes with every coroutine's return value, in argument order
GwcReturn ==
  /\ mode = "gwc" /\ cst = "running"
  /\ \A u \in DOMAIN upc : upc[u] = "done"
  /\ \A u \in DOMAIN ures : ~ures[u].exc
  /\ gres' = [i \in 1..NUnits |-> ures[i].val]
  /\ cst' = "returned"
  /\ UNCHANGED <<mode, L, sem, upc, ures, order, PortsVars, gout, SubsVars, OrchVars, ExtraVars>>

\* enumerate_subdomains: ct = await _from_crtsh(root_domain) -- the CT request is sent
\* and the call waits for it (cst = "ct")
SubsCTStart ==
  /\ mode = "subs" /\ cst = "init"
  /\ cst' = "ct"
  /\ UNCHANGED <<mode, L, sem, upc, ures, order, PortsVars, GwcVars, SubsVars, OrchVars, ExtraVars>>

\* enumerate_subdomains: ct = await _from_crtsh(root_domain); discovered.update(ct);
\* sources["crt.sh"] = len(ct); candidates; Semaphore(concurrent_dns); one check task per candidate
SubsCT ==
  /\ mode = "subs" /\ cst = "ct"
  /\ ct' = FromCrtsh(root, ctOk, ctRaw)
  /\ disc' = Range(ct')
  /\ sources' = [sources EXCEPT !.crt = Len(ct')]
  /\ sem' = L
  /\ upc' = [c \in Range(Candidates(root)) |-> "queued"]
  /\ cst' = "running"
  /\ UNCHANGED <<mode, L, ures, order, PortsVars, GwcVars, root, ctOk, ctRaw, resolves, discList, OrchVars, ExtraVars>>

SubsResolveNoAwait(c) ==
  /\ mode = "subs" /\ upc[c] = "inflight"
  /\ disc' = disc \cup {c}
  /\ ures' = ures @@ (c :> [exc |-> FALSE, val |-> resolves[c]])
  /\ upc' = [upc EXCEPT ![c] = "done"]
  /\ sem' = sem + 1
  /\ order' = Append(order, c)
  /\ UNCHANGED <<mode, L, cst, PortsVars, GwcVars, root, ctOk, ctRaw, resolves, ct, sources, discList, OrchVars, ExtraVars>>

\* check(name) after acquiring: if await _resolve(name): discovered.add(name);
\* _resolve turns every Exception into False; release on leaving async with
SubsResolve(c) ==
  /\ mode = "subs" /\ upc[c] = "inflight"
  /\ disc' = IF resolves[c] THEN disc \cup {c} ELSE disc
  /\ ures' = ures @@ (c :> [exc |-> FALSE, val |-> resolves[c]])
  /\ upc' = [upc EXCEPT ![c] = "done"]
  /\ sem' = sem + 1
  /\ order' = Append(order, c)
  /\ UNCHANGED <<mode, L, cst, PortsVars, GwcVars, root, ctOk, ctRaw, resolves, ct, sources, discList, OrchVars, ExtraVars>>

\* sources["dns-wordlist"] = len([c for c in candidates if c in discovered]);
\* SubdomainsResult(discovered=sorted(discovered))
DnsWordlistCount(cands, discovered) == Cardinality({i \in DOMAIN cands : cands[i] \in discovered})

SubsReturn ==
  /\ mode = "subs" /\ cst = "running"
  /\ \A c \in DOMAIN upc : upc[c] = "done"
  /\ sources' = [sources EXCEPT !.dns = DnsWordlistCount(Candidates(root), disc)]
  /\ discList' = SortNames(disc)
  /\ cst' = "returned"
  /\ UNCHANGED <<mode, L, sem, upc, ures, order, PortsVars, GwcVars, root, ctOk, ctRaw, resolves, ct, disc, OrchVars, ExtraVars>>

\* one statement of the orchestrator's program
OrchStep ==
  /\ mode \in {"api", "cli"} /\ cst \in {"init", "running"}
  /\ LET ins == Program(mode)[opc]
         q == ins.q
     IN CASE ins.op = "started" ->
               /\ tStart' = TRUE /\ opc' = opc + 1 /\ cst' = "running"
               /\ UNCHANGED <<ost, ocause, tFinish, orep>>
          [] ins.op = "task" ->
               /\ ost' = IF Enabled(q, ocfg) THEN [ost EXCEPT ![q] = "running"] ELSE ost
               /\ opc' = opc + 1 /\ cst' = "running"
               /\ UNCHANGED <<ocause, tStart, tFinish, orep>>
          [] ins.op = "badcall" ->
               /\ IF Enabled(q, ocfg)
                    THEN cst' = "raised" /\ ocause' = q /\ opc' = opc
                    ELSE cst' = "running" /\ opc' = opc + 1 /\ UNCHANGED ocause
               /\ UNCHANGED <<ost, tStart, tFinish, orep>>
          [] ins.op = "raise" ->
               /\ cst' = "raised" /\ ocause' = q /\ opc' = opc
               /\ UNCHANGED <<ost, tStart, tFinish, orep>>
          [] ins.op = "coro" ->
               /\ ost' = IF Enabled(q, ocfg) THEN [ost EXCEPT ![q] = "created"] ELSE ost
               /\ opc' = opc + 1 /\ cst' = "running"
               /\ UNCHANGED <<ocause, tStart, tFinish, orep>>
          [] ins.op = "await" ->
               /\ ost[q] # "running"
               /\ IF ost[q] = "created"
                    THEN ost' = [ost EXCEPT ![q] = "running"] /\ opc' = opc /\ cst' = "running"
                         /\ UNCHANGED ocause
                  ELSE IF ost[q] = "settled" /\ oval[q] = "exc" /\ ~AwaitAbsorbs(q)
                    THEN cst' = "raised" /\ ocause' = q /\ opc' = opc /\ UNCHANGED ost
                  ELSE opc' = opc + 1 /\ cst' = "running" /\ UNCHANGED <<ost, ocause>>
               /\ UNCHANGED <<tStart, tFinish, orep>>
          [] ins.op = "takeover" ->
               /\ ost' = IF TakeoverGuard(oval["subdomains"]) THEN [ost EXCEPT ![q] = "running"] ELSE ost
               /\ opc' = opc + 1 /\ cst' = "running"
               /\ UNCHANGED <<ocause, tStart, tFinish, orep>>
          [] ins.op = "finished" ->
               /\ tFinish' = TRUE /\ opc' = opc + 1 /\ cst' = "running"
               /\ UNCHANGED <<ost, ocause, tStart, orep>>
          [] OTHER ->
               /\ orep' = [p \in Probes |-> IF ReportField(p) \in ResultFields THEN Slot(oval[p]) ELSE "dropped"]
               /\ cst' = "returned"
               /\ UNCHANGED <<ost, opc, ocause, tStart, tFinish>>
  /\ UNCHANGED <<mode, L, sem, upc, ures, order, PortsVars, GwcVars, SubsVars, ocfg, oval, ExtraVars>>

\* a running probe (task, thread or awaited coroutine) settles
ProbeSettle(q) ==
  /\ mode \in {"api", "cli"} /\ ost[q] = "running"
  /\ ost' = [ost EXCEPT ![q] = "settled"]
  /\ \E v \in Outcomes(q) : oval' = [oval EXCEPT ![q] = v]
  /\ UNCHANGED <<mode, L, sem, upc, ures, cst, order, PortsVars, GwcVars, SubsVars,
                 ocfg, opc, ocause, tStart, tFinish, orep, ExtraVars>>

PureUnchanged == UNCHANGED <<mode, L, sem, upc, ures, cst, order, PortsVars, GwcVars, SubsVars, OrchVars>>

\* scan_domain / domain._run: host, scheme and base_url from the raw target
NormRun ==
  /\ mode = "norm" /\ ~norm.done
  /\ LET h == NormHost(norm.raw)
         sc == IF norm.entry = "api" THEN ApiScheme(norm.raw) ELSE CliScheme(norm.raw)
     IN norm' = [norm EXCEPT !.done = TRUE, !.host = h, !.scheme = sc, !.base = BaseUrl(sc, h)]
  /\ PureUnchanged /\ UNCHANGED <<prof, grd, dnsv>>

\* scan_domain's ports_list selection / _resolve_ports
ProfileResolve ==
  /\ mode = "profile" /\ ~prof.done
  /\ LET o == IF prof.entry = "api" THEN ApiPorts(prof.profile, prof.given, prof.ports)
              ELSE CliPorts(prof.profile, prof.given, prof.csv)
     IN prof' = [prof EXCEPT !.done = TRUE, !.rejected = o.rejected, !.out = o.ports]
  /\ PureUnchanged /\ UNCHANGED <<norm, grd, dnsv>>

\* analyze_security_headers: evaluate_security_headers then _grade_from_findings
GradeRun ==
  /\ mode = "grade" /\ ~grd.done
  /\ LET g == GradeFromFindings(EvaluateSecurityHeaders(grd.hdr, grd.https))
     IN grd' = [grd EXCEPT !.done = TRUE, !.grade = g.grade, !.score = g.score]
  /\ PureUnchanged /\ UNCHANGED <<norm, prof, dnsv>>

\* assess_dns(domain)
DnsAssess ==
  /\ mode = "dnsa" /\ ~dnsv.done
  /\ dnsv' = [dnsv EXCEPT !.done = TRUE, !.out = AssessDns(dnsv.domain, dnsv.txt)]
  /\ PureUnchanged /\ UNCHANGED <<norm, prof, grd>>

\* the steps the asyncio event loop schedules (tasks, offloaded threads, awaits)
AsyncNext ==
  \/ PortsStart
  \/ \E u \in DOMAIN upc : Acquire(u)
  \/ \E p \in DOMAIN upc : PortsConnect(p)
  \/ \E p \in DOMAIN upc : PortsClose(p)
  \/ PortsRaise
  \/ PortsReturn
  \/ GwcStart
  \/ \E u \in DOMAIN upc : GwcRun(u)
  \/ GwcRaise
  \/ GwcReturn
  \/ SubsCTStart
  \/ SubsCT
  \/ \E c \in DOMAIN upc : SubsResolve(c)
  \/ SubsReturn
  \/ OrchStep
  \/ \E q \in Probes : ProbeSettle(q)

Next ==
  \/ AsyncNext
  \/ PortsRescan
  \/ NormRun
  \/ ProfileResolve
  \/ GradeRun
  \/ DnsAssess

Spec == Init /\ [][Next]_vars

\* the asyncio event loop keeps running every ready task and every offloaded thread
FairSpec == Spec /\ WF_vars(AsyncNext)

\* ---- properties ----
\* units holding a semaphore slot
InFlight == Cardinality({u \in DOMAIN upc : upc[u] \in {"inflight", "closing"}})

Settled == cst \in {"returned", "raised"}

AscendingInts(s) == \A i \in 1..Len(s) - 1 : s[i] < s[i + 1]

AscendingNames(s) == \A i \in 1..Len(s) - 1 : LexLess(s[i], s[i + 1])

\* C1: in every call at most L units are in flight, and once the call has
\* settled (returned or raised) all L semaphore slots are free again.
C1_BoundedScheduling ==
  mode \in {"ports", "gwc", "subs"} => InFlight <= L /\ (Settled => sem = L)

\* C2: in scan_ports and gather_with_concurrency the call settles only after
\* every unit has settled, and it returns a result for every unit.
C2_FailureIsolation ==
  mode \in {"ports", "gwc"} /\ Settled =>
    (\A u \in DOMAIN upc : upc[u] = "done") /\ cst = "returned"

\* C3: ports_scanned of a scan_ports result is the ascending, duplicate-free
\* list of the ports given.
C3_PortsScannedSortedDedup ==
  mode = "ports" /\ cst = "returned" => AscendingInts(plist) /\ Range(plist) = Range(pin)

C3_Witness ==
  /\ mode = "ports" /\ cst = "returned"
  /\ Cardinality(Range(pin)) < Len(pin)
  /\ \E i, j \in DOMAIN pin : i < j /\ pin[i] > pin[j]

\* C4: results holds one outcome per scanned port in ports_scanned order, and
\* open_ports is the ascending list of the ports whose outcome is open.
C4_OpenPortsSubsequence ==
  mode = "ports" /\ cst = "returned" =>
    /\ Len(presults) = Len(plist)
    /\ \A i \in DOMAIN presults : presults[i].port = plist[i]
    /\ Range(popen) = {presults[i].port : i \in {j \in DOMAIN presults : presults[j].is_open}}
    /\ AscendingInts(popen)
    /\ Range(popen) \subseteq Range(plist)

C4_Witness ==
  /\ mode = "ports" /\ cst = "returned"
  /\ Len(popen) >= 2 /\ Len(popen) < Len(plist)

\* C5: on a stable network two scan_ports calls on the same host and ports with
\* different concurrency limits return the same open-port set, whatever the interleaving.
C5_ConcurrencyIndependent ==
  mode = "ports" /\ cst = "returned" /\ pprev # NoPrev => Range(popen) = pprev.open

\* C6: is_open is true exactly when the connect succeeded, and no connect
\* failure is raised out of scan_ports.
C6_ConnectFailuresAbsorbed ==
  mode = "ports" =>
    /\ cst # "raised"
    /\ \A p \in DOMAIN ures : ures[p].val = Connected(ures[p].conn)

\* C8: every discovered name is the root domain or ends with "." + root,
\* compared case-insensitively.
C8_DiscoveredUnderRoot ==
  mode = "subs" /\ cst = "returned" =>
    \A i \in DOMAIN discList :
      Lower(discList[i]) = Lower(root) \/ EndsWith(Lower(discList[i]), Dot \o Lower(root))

\* C9: discovered is the sorted, duplicate-free union of the CT source's names
\* and the resolved wordlist names; with CT names "w.a.b", "b.a.b", "w.b.b" for
\* root "a.b" and nothing resolving it is ["b.a.b", "w.a.b"].
C9_DiscoveredUnion ==
  mode = "subs" /\ cst = "returned" =>
    /\ AscendingNames(discList)
    /\ Range(discList) = Range(FromCrtsh(root, ctOk, ctRaw))
                          \cup {c \in Range(Candidates(root)) : resolves[c]}
    /\ (/\ root = <<97, 46, 98>> /\ ctOk
        /\ ctRaw = {<<119, 46, 97, 46, 98>>, <<98, 46, 97, 46, 98>>, <<119, 46, 98, 46, 98>>}
        /\ \A c \in DOMAIN resolves : ~resolves[c])
       => discList = <<<<98, 46, 97, 46, 98>>, <<119, 46, 97, 46, 98>>>>

C9_Witness ==
  /\ mode = "subs" /\ cst = "returned"
  /\ root = <<97, 46, 98>> /\ ctOk
  /\ ctRaw = {<<119, 46, 97, 46, 98>>, <<98, 46, 97, 46, 98>>, <<119, 46, 98, 46, 98>>}
  /\ \A c \in DOMAIN resolves : ~resolves[c]

\* C10: sources["crt.sh"] is the CT source's own count and
\* sources["dns-wordlist"] the number of wordlist candidates that resolved.
C10_SourceCountsOwnYield ==
  mode = "subs" /\ cst = "returned" =>
    /\ sources.crt = Len(FromCrtsh(root, ctOk, ctRaw))
    /\ sources.dns = Cardinality({c \in Range(Candidates(root)) : resolves[c]})

\* C11: every discovered name is lowercase, for every root domain and both sources.
C11_DiscoveredLowercase ==
  mode = "subs" /\ cst = "returned" => \A i \in DOMAIN discList : Lower(discList[i]) = discList[i]

\* C12: a failed CT lookup contributes nothing, an unresolved wordlist name is not
\* discovered, enumerate_subdomains never raises and always returns its result.
C12_SourceFailuresAbsorbed ==
  /\ [](mode = "subs" =>
          /\ cst # "raised"
          /\ (cst \in {"running", "returned"} /\ ~ctOk => ct = <<>> /\ sources.crt = 0)
          /\ (cst = "returned" =>
                \A c \in DOMAIN resolves :
                  ~resolves[c] /\ c \notin Range(ct) => c \notin Range(discList)))
  /\ (mode = "subs" => <>(cst = "returned"))

C12_Witness ==
  /\ mode = "subs" /\ cst = "returned" /\ ~ctOk
  /\ \E c \in DOMAIN resolves : ~resolves[c]

\* C13: the CT lookup and the DNS sweep run concurrently: while the CT request is in
\* flight the wordlist resolutions have already been scheduled.
C13_CTAndDNSConcurrent ==
  mode = "subs" /\ cst = "ct" => DOMAIN upc # {}

Orch == mode \in {"api", "cli"}

\* C16: a probe is started if and only if its toggle is on.
C16_ProbeIffToggle ==
  Orch =>
    /\ \A q \in DOMAIN ocfg : ost[q] # "none" => ocfg[q]
    /\ (cst = "returned" => \A q \in DOMAIN ocfg : ost[q] # "none" <=> ocfg[q])

\* C17: a probe's failure becomes an absent slot; the scan never raises.
C17_ProbeFailureAbsorbed ==
  Orch => cst # "raised" /\ (cst = "returned" => \A q \in Probes : oval[q] = "exc" => orep[q] = "absent")

\* C18: when every probe that ran failed, the scan returns a report (finished_at
\* captured) with every slot absent.
AllFailed == \A q \in Probes : ost[q] = "settled" => oval[q] \in {"exc", "neutral", "empty"}

C18_AllFailedReport ==
  Orch /\ cst \in {"returned", "raised"} /\ AllFailed =>
    cst = "returned" /\ tStart /\ tFinish /\ \A q \in Probes : orep[q] = "absent"

\* C19: started_at is captured before any probe is dispatched, finished_at after
\* every dispatched probe has settled (and none is dispatched later).
C19_TimestampsBracketProbes ==
  /\ [](Orch /\ tFinish => \A q \in Probes : ost[q] \in {"none", "settled"})
  /\ [][Orch => /\ (~tStart => ost' = ost)
                /\ (tFinish => \A q \in Probes : ost[q] = "none" => ost'[q] = "none")]_vars

\* C20: every enabled probe is in flight before the orchestrator waits on any result.
Waiting == Orch /\ cst = "running" /\ Program(mode)[opc].op = "await"
           /\ ost[Program(mode)[opc].q] = "running"

C20_ProbesStartedBeforeWaiting ==
  Waiting => \A q \in DOMAIN ocfg : Enabled(q, ocfg) => ost[q] \in {"running", "settled"}

\* C21: for every target (bare domain or URL, any case of scheme, with or without a path)
\* the extracted host carries no scheme prefix, no path and no trailing slash.
C21_HostNormalized ==
  mode = "norm" /\ norm.done => 47 \notin Range(norm.host)

\* C22: in both entry points an explicit http/https scheme (any case) is kept, otherwise
\* loopback hosts get http and every other host https; base_url = scheme + "://" + host.
C22_SchemeInference ==
  mode = "norm" /\ norm.done =>
    LET r == Strip(norm.raw)
        explicit == StartsWith(Lower(r), HttpPrefix) \/ StartsWith(Lower(r), HttpsPrefix)
        expected == IF explicit THEN Lower(TakeUntil(r, 58))
                    ELSE IF norm.host \in Loopback THEN SchemeHttp ELSE SchemeHttps
    IN norm.scheme = expected /\ norm.base = norm.scheme \o SchemeSep \o norm.host

\* C23: an unknown port profile, or profile custom without ports or with an empty port
\* list, is rejected as an input error, in the API and in the CLI.
C23_InvalidProfileRejected ==
  LET noPorts == IF prof.entry = "api" THEN ~prof.given \/ prof.ports = <<>>
                 ELSE ~prof.given \/ CsvInts(prof.csv) = <<>>
      invalid == prof.profile \notin {"top30", "top100", "custom"} \/ (prof.profile = "custom" /\ noPorts)
  IN (mode = "profile" /\ prof.done /\ invalid) => prof.rejected

\* C24: the port list each accepted profile (top30, top100, custom) produces is non-empty,
\* strictly ascending and made of integers in 1..65535.
C24_PortListWellFormed ==
  mode = "profile" /\ prof.done /\ ~prof.rejected /\ prof.profile \in {"top30", "top100", "custom"} =>
    /\ Len(prof.out) > 0
    /\ \A i \in 1..Len(prof.out) - 1 : prof.out[i] < prof.out[i + 1]
    /\ \A i \in DOMAIN prof.out : prof.out[i] \in 1..65535

\* all six security headers present with the values the quality checks accept
AllStrong(h) ==
  /\ h.csp.present /\ ~h.csp.wild /\ h.csp.dflt
  /\ h.hsts.present /\ h.hsts.inc /\ h.hsts.pre /\ h.hsts.maxok
  /\ \A k \in {"xcto", "xfo", "rp", "pp"} : h[k].present /\ h[k].good

\* X-Frame-Options is the only security header present
OnlyXfo(h) == h.xfo.present /\ \A k \in {"csp", "hsts", "xcto", "rp", "pp"} : ~h[k].present

\* C27: the header score lies in 0..100 and the grade follows the thresholds; six strong
\* headers grade A or A+ with score >= 90; X-Frame-Options alone grades C, D or F with score <= 80.
C27_HeaderGrading ==
  mode = "grade" /\ grd.done =>
    /\ grd.score \in 0..100
    /\ grd.grade = CASE grd.score >= 95 -> "A+" [] grd.score \in 90..94 -> "A"
                      [] grd.score \in 80..89 -> "B" [] grd.score \in 70..79 -> "C"
                      [] grd.score \in 60..69 -> "D" [] OTHER -> "F"
    /\ AllStrong(grd.hdr) => grd.grade \in {"A+", "A"} /\ grd.score >= 90
    /\ OnlyXfo(grd.hdr) => grd.grade \in {"C", "D", "F"} /\ grd.score <= 80

C27_Witness ==
  mode = "grade" /\ grd.done /\ AllStrong(grd.hdr) /\ ~grd.https

\* C28: for every set of TXT records, assess_dns reports the queried domain, a boolean
\* spf_present and a dmarc_policy among None, "none", "quarantine", "reject".
C28_DnsAssessmentFields ==
  mode = "dnsa" /\ dnsv.done =>
    /\ dnsv.out.domain = dnsv.domain
    /\ dnsv.out.spf_present \in BOOLEAN
    /\ \/ dnsv.out.dmarc_policy.isNone
       \/ dnsv.out.dmarc_policy.v \in {<<110, 111, 110, 101>>, <<113, 117, 97, 114, 97, 110, 116, 105, 110, 101>>, <<114, 101, 106, 101, 99, 116>>}

\* C25: the CLI domain command completes every scan of a valid domain with valid
\* arguments (exit code 0), whatever the toggles and probe outcomes.
C25_CliExitsZero == mode = "cli" => cst # "raised"

\* C26: every result the orchestrator computes is carried in its own report slot.
C26_ReportCarriesEveryResult ==
  Orch /\ cst = "returned" => \A q \in Probes : oval[q] \notin {"none", "exc"} => orep[q] = "present"

\* C29: every connect attempt of scan_ports settles within its own timeout (a port that
\* never answers ends with wait_for's TimeoutError), the close of a connected attempt
\* settles too, and the call returns (or raises) whatever the hosts answer.
C29_ScanPortsTerminates ==
  /\ [](mode = "ports" =>
          \A p \in DOMAIN ures : reach[p] = "silent" /\ hostOk => ures[p].conn = "timeout")
  /\ (mode = "ports" => <>(Settled /\ \A u \in DOMAIN upc : upc[u] = "done"))

C29_Witness ==
  /\ mode = "ports" /\ cst = "returned" /\ hostOk
  /\ \E p \in DOMAIN ures : reach[p] = "silent"
  /\ \E p \in DOMAIN ures : Connected(ures[p].conn)

====
